---- MODULE Spec2Model ----
(***************************************************************************)
(* Model of ivy's torch backend statistical functions                      *)
(* (ivy/functional/backends/torch/statistical.py): the reductions min,     *)
(* max, mean, prod, std, sum, var and the scans cumprod, cumsum; and of    *)
(* trapz (ivy/functional/backends/torch/extensions/elementwise.py) with    *)
(* its Array method (ivy/array/extensions/elementwise.py).                 *)
(*                                                                         *)
(* Every function is a stateless synchronous call.  A state of the model   *)
(* is one call: its arguments, the caller's out buffer, and (once the call *)
(* has run) the value it returned.  Init draws the arguments from bounded  *)
(* sets; one action per function computes what its code computes.          *)
(*                                                                         *)
(* A tensor is a record [shape, dtype, data]: shape is a sequence of       *)
(* extents, data a function from index tuples (0-based coordinates) to     *)
(* element values.  Axis numbers are 0-based as in the source.             *)
(***************************************************************************)
EXTENDS Integers, Sequences, FiniteSets, TLC

\* ----------------------------------------------------------------- bounds
\* Largest rank of an input tensor.
MaxRank == 2
\* Largest extent of one dimension of an input tensor.
MaxExtent == 3
\* Largest number of elements of an input tensor.
MaxElems == 3
\* Input elements are drawn from 0..MaxVal and WideVal.
MaxVal == 0
\* An element value that fits int16 but not int8.
WideVal == 200
\* Longest axis sequence passed to a reduction.
MaxAxes == 2
\* Corrections are the half-integers 0, 1/2, ..., MaxCorr2/2.
MaxCorr2 == 4

\* ----------------------------------------------------------------- helpers
RECURSIVE SumSeq(_)
SumSeq(s) == IF s = <<>> THEN 0 ELSE Head(s) + SumSeq(Tail(s))

RECURSIVE ProdSeq(_)
ProdSeq(s) == IF s = <<>> THEN 1 ELSE Head(s) * ProdSeq(Tail(s))

\* The largest (smallest) element of a sequence; MaxSeq(<<>>) = 0.
RECURSIVE MaxSeq(_)
MaxSeq(s) == IF s = <<>> THEN 0
             ELSE IF Len(s) = 1 THEN Head(s)
             ELSE LET m == MaxSeq(Tail(s)) IN IF Head(s) > m THEN Head(s) ELSE m

MinSeq(s) == -MaxSeq([i \in DOMAIN s |-> -s[i]])

RECURSIVE Gcd(_, _)
Gcd(a, b) == IF b = 0 THEN a ELSE Gcd(b, a % b)

Abs(n) == IF n < 0 THEN -n ELSE n

RECURSIVE Pow2(_)
Pow2(n) == IF n = 0 THEN 1 ELSE 2 * Pow2(n - 1)

RECURSIVE SetToSeq(_)
SetToSeq(S) == IF S = {} THEN <<>>
               ELSE LET e == CHOOSE e \in S : TRUE IN <<e>> \o SetToSeq(S \ {e})

\* ----------------------------------------------------------------- dtypes
IntDtypes == {"int8", "int16", "int32", "int64"}
FloatDtypes == {"float16", "float32", "float64"}
Dtypes == IntDtypes \cup FloatDtypes

\* "none" stands for Python's None in a dtype argument.
NoDtype == "none"

dtype_bits(d) ==
    CASE d = "int8" -> 8
      [] d \in {"int16", "float16"} -> 16
      [] d \in {"int32", "float32"} -> 32
      [] OTHER -> 64

\* ivy.infer_default_dtype: the default dtype of the kind of d.
infer_default_dtype(d) == IF d \in IntDtypes THEN "int32" ELSE "float32"

valid_dtypes == Dtypes

\* A value stored in dtype d.  Integer dtypes of 8 and 16 bits wrap in two's
\* complement; every value of the model fits the wider dtypes and the float
\* dtypes exactly.
WrapVal(v, d) ==
    IF d \in {"int8", "int16"}
    THEN LET m == Pow2(dtype_bits(d)) IN ((v + m \div 2) % m) - m \div 2
    ELSE v

\* ----------------------------------------------------------------- values
\* An element of an integer tensor is an integer.  An element of a float
\* tensor is the rational num/den in lowest terms (root = 1) or its square
\* root (root = 2); den = 0 is NaN.
NaN == [num |-> 0, den |-> 0, root |-> 1]
IsNaN(v) == v.den = 0

Frac(n, d) ==
    IF d <= 0 THEN NaN
    ELSE LET g == Gcd(Abs(n), d) IN [num |-> n \div g, den |-> d \div g, root |-> 1]

FracMul(a, b) ==
    IF IsNaN(a) \/ IsNaN(b) THEN NaN
    ELSE [Frac(a.num * b.num, a.den * b.den) EXCEPT !.root = a.root]

Sqrt(v) == IF IsNaN(v) THEN NaN ELSE [v EXCEPT !.root = 2]

\* The integer n stored in dtype d.
MkVal(n, d) == IF d \in FloatDtypes THEN Frac(n, 1) ELSE WrapVal(n, d)

\* The integer an element of an input tensor of dtype d holds (the inputs of
\* the model are integral).
IntOf(v, d) == IF d \in FloatDtypes THEN v.num ELSE v

\* An element v of dtype from converted to dtype to (float to integer
\* truncates).
ConvertVal(v, from, to) ==
    IF from \in FloatDtypes /\ to \in FloatDtypes THEN v
    ELSE IF from \in FloatDtypes THEN WrapVal(v.num \div v.den, to)
    ELSE MkVal(v, to)

\* ----------------------------------------------------------------- tensors
Rank(t) == Len(t.shape)

Indices(shape) ==
    {idx \in [1..Len(shape) -> 0..(MaxSeq(shape) - 1)] :
        \A k \in 1..Len(shape) : idx[k] < shape[k]}

Tensor(shape, dtype, data) == [shape |-> shape, dtype |-> dtype, data |-> data]

\* An error raised to the caller instead of a returned tensor.
Err(kind) == [err |-> kind]
IsErr(r) == "err" \in DOMAIN r
IsTensor(r) == "shape" \in DOMAIN r

\* Tensor.type(dtype) / Tensor.to(dtype): the same shape, every element
\* converted to dtype.
Cast(t, d) ==
    IF IsErr(t) THEN t
    ELSE Tensor(t.shape, d, [idx \in DOMAIN t.data |-> ConvertVal(t.data[idx], t.dtype, d)])

\* ------------------------------------------------- backend (torch) primitives
\* torch wraps a dimension number d of a rank-r tensor into 0..r-1 when
\* -r <= d < r (a 0-d tensor is treated as rank 1) and raises IndexError
\* otherwise.
DimRange(rank) == IF rank = 0 THEN 1 ELSE rank
DimOk(d, rank) == -DimRange(rank) <= d /\ d < DimRange(rank)
WrapDim(d, rank) == IF d < 0 THEN d + DimRange(rank) ELSE d

\* torch.flip left out: the tensor is returned as it is.
TorchFlip_id(t, d) == t

\* torch.flip(x, dims=(d,)).
TorchFlip(t, d) ==
    IF IsErr(t) THEN t
    ELSE IF ~DimOk(d, Rank(t)) THEN Err("IndexError")
    ELSE IF Rank(t) = 0 THEN t
    ELSE LET k == WrapDim(d, Rank(t)) + 1
         IN  Tensor(t.shape, t.dtype,
                [idx \in Indices(t.shape) |->
                    t.data[[idx EXCEPT ![k] = t.shape[k] - 1 - idx[k]]]])

\* torch.transpose(x, d0, d1).
TorchTranspose(t, d0, d1) ==
    IF IsErr(t) THEN t
    ELSE IF ~DimOk(d0, Rank(t)) \/ ~DimOk(d1, Rank(t)) THEN Err("IndexError")
    ELSE IF Rank(t) = 0 THEN t
    ELSE LET a == WrapDim(d0, Rank(t)) + 1
             b == WrapDim(d1, Rank(t)) + 1
             shp == [t.shape EXCEPT ![a] = t.shape[b], ![b] = t.shape[a]]
         IN  Tensor(shp, t.dtype,
                [idx \in Indices(shp) |->
                    t.data[[idx EXCEPT ![a] = idx[b], ![b] = idx[a]]]])

\* Python slice bounds on a dimension of extent n: x[..., -1:] starts at
\* max(n-1, 0), x[..., :-1] stops at max(n-1, 0).
SliceStart(n) == IF n - 1 > 0 THEN n - 1 ELSE 0

\* x[..., lo:hi] on the last dimension, 0 <= lo <= hi <= extent.
SliceLast(t, lo, hi) ==
    LET r == Rank(t)
        shp == [t.shape EXCEPT ![r] = hi - lo]
    IN  Tensor(shp, t.dtype,
            [idx \in Indices(shp) |-> t.data[[idx EXCEPT ![r] = idx[r] + lo]]])

\* x[..., -1:]
LastSlice(t) ==
    IF IsErr(t) THEN t
    ELSE IF Rank(t) = 0 THEN Err("IndexError")
    ELSE SliceLast(t, SliceStart(t.shape[Rank(t)]), t.shape[Rank(t)])

\* x[..., :-1] with the last position kept.
DropLast_keep(t) == t

\* x[..., :-1]
DropLast(t) ==
    IF IsErr(t) THEN t
    ELSE IF Rank(t) = 0 THEN Err("IndexError")
    ELSE SliceLast(t, 0, SliceStart(t.shape[Rank(t)]))

\* A tensor of t's shape and dtype holding the element v everywhere.
FullLike(t, v) ==
    IF IsErr(t) THEN t
    ELSE Tensor(t.shape, t.dtype, [idx \in DOMAIN t.data |-> v])

\* zeros_like with the identity element of the product in place of 0.
ZerosLike_one(t) == IF IsErr(t) THEN t ELSE FullLike(t, MkVal(1, t.dtype))

\* ones_like with the identity element of the sum in place of 1.
OnesLike_zero(t) == IF IsErr(t) THEN t ELSE FullLike(t, MkVal(0, t.dtype))

\* torch.zeros_like(t), torch.ones_like(t)
ZerosLike(t) == IF IsErr(t) THEN t ELSE FullLike(t, MkVal(0, t.dtype))
OnesLike(t) == IF IsErr(t) THEN t ELSE FullLike(t, MkVal(1, t.dtype))

\* torch.cat((a, b), -1) of two tensors that agree on every other dimension
\* and on the dtype.
TorchCat(a, b) ==
    IF IsErr(a) THEN a
    ELSE IF IsErr(b) THEN b
    ELSE LET r == Rank(a)
        shp == [a.shape EXCEPT ![r] = a.shape[r] + b.shape[r]]
    IN  Tensor(shp, a.dtype,
            [idx \in Indices(shp) |->
                IF idx[r] < a.shape[r] THEN a.data[idx]
                ELSE b.data[[idx EXCEPT ![r] = idx[r] - a.shape[r]]]])

\* Prefix without the position idx[k] itself.
Prefix_short(t, idx, k) ==
    [j \in 1..idx[k] |-> IntOf(t.data[[idx EXCEPT ![k] = j - 1]], t.dtype)]

\* The values of t at the positions 0..idx[k] of dimension k, the other
\* coordinates those of idx.
Prefix(t, idx, k) ==
    [j \in 1..(idx[k] + 1) |-> IntOf(t.data[[idx EXCEPT ![k] = j - 1]], t.dtype)]

\* torch.cumsum / torch.cumprod (x, d, dtype=dtype): the input is converted
\* to dtype, then scanned inclusively and forward along d in dtype.
TorchScan(kind, t, d, dtype) ==
    IF IsErr(t) THEN t
    ELSE IF ~DimOk(d, Rank(t)) THEN Err("IndexError")
    ELSE IF Rank(t) = 0 THEN Cast(t, dtype)
    ELSE LET k == WrapDim(d, Rank(t)) + 1
             c == Cast(t, dtype)
         IN  Tensor(t.shape, dtype,
                [idx \in Indices(t.shape) |->
                    MkVal(IF kind = "cumsum" THEN SumSeq(Prefix(c, idx, k))
                          ELSE ProdSeq(Prefix(c, idx, k)), dtype)])

SquareSeq(s) == [i \in DOMAIN s |-> s[i] * s[i]]

\* One output element of a backend reduction of the integers vals held by a
\* tensor of dtype d.  var and std divide the sum of squared deviations from
\* the mean by Len(vals) minus 1 (unbiased) or 0; 0/0 is NaN.
ReduceVals(kind, vals, d) ==
    LET n == Len(vals)
        s == SumSeq(vals)
        ssd == n * SumSeq(SquareSeq(vals)) - s * s
    IN  CASE kind = "sum" -> MkVal(s, d)
          [] kind = "prod" -> MkVal(ProdSeq(vals), d)
          [] kind = "amax" -> MkVal(MaxSeq(vals), d)
          [] kind = "amin" -> MkVal(MinSeq(vals), d)
          [] kind = "mean" -> Frac(s, n)
          [] kind = "var_unbiased" -> Frac(ssd, n * (n - 1))
          [] kind = "var_biased" -> Frac(ssd, n * n)
          [] kind = "std_unbiased" -> Sqrt(Frac(ssd, n * (n - 1)))
          [] kind = "std_biased" -> Sqrt(Frac(ssd, n * n))

\* The 1-based positions of the dimensions a reduction over dims keeps.
KeptPositions(rank, dims) ==
    LET RECURSIVE Kept(_)
        Kept(k) == IF k > rank THEN <<>>
                   ELSE (IF (k - 1) \in dims THEN <<>> ELSE <<k>>) \o Kept(k + 1)
    IN  Kept(1)

\* The shape a reduction over the dimension set dims leaves.
ReducedShape(shape, dims, keepdim) ==
    IF keepdim
    THEN [k \in 1..Len(shape) |-> IF (k - 1) \in dims THEN 1 ELSE shape[k]]
    ELSE LET kept == KeptPositions(Len(shape), dims)
         IN  [j \in 1..Len(kept) |-> shape[kept[j]]]

\* A backend reduction torch.<kind>(x, dim=dims, keepdim=keepdim), dims a
\* sequence of dimension numbers: an empty dims reduces every dimension; a
\* dimension out of range or named twice is an error; amin and amax raise on
\* a reduced dimension of extent 0.
TorchReduce(kind, t, dims, keepdim) ==
    IF IsErr(t) THEN t
    ELSE IF \E i \in DOMAIN dims : ~DimOk(dims[i], Rank(t)) THEN Err("IndexError")
    ELSE IF \E i, j \in DOMAIN dims :
                i < j /\ WrapDim(dims[i], Rank(t)) = WrapDim(dims[j], Rank(t))
         THEN Err("RuntimeError")
    ELSE LET r == Rank(t)
             ds == IF dims = <<>> THEN 0..(r - 1)
                   ELSE {WrapDim(dims[i], r) : i \in DOMAIN dims} \cap (0..(r - 1))
             kept == KeptPositions(r, ds)
             shp == ReducedShape(t.shape, ds, keepdim)
             Group(oidx) ==
                {idx \in Indices(t.shape) :
                    \A j \in 1..Len(kept) :
                        idx[kept[j]] = IF keepdim THEN oidx[kept[j]] ELSE oidx[j]}
             Vals(oidx) == LET g == SetToSeq(Group(oidx))
                           IN  [i \in DOMAIN g |-> IntOf(t.data[g[i]], t.dtype)]
         IN  IF kind \in {"amin", "amax"} /\ \E a \in ds : t.shape[a + 1] = 0
             THEN Err("RuntimeError")
             ELSE Tensor(shp, t.dtype,
                    [oidx \in Indices(shp) |-> ReduceVals(kind, Vals(oidx), t.dtype)])

\* ------------------------------------------------------- arguments and results
\* An axis argument: None, an int, a tuple or a list of ints.
AxisNone == [kind |-> "none", v |-> <<>>]
AxisInt(a) == [kind |-> "int", v |-> <<a>>]
AxisTuple(s) == [kind |-> "tuple", v |-> s]
AxisList(s) == [kind |-> "list", v |-> s]

\* Python's axis == (), axis == [], not axis, axis != 0.
IsEmptyTuple(axis) == axis.kind = "tuple" /\ axis.v = <<>>
IsEmptyList(axis) == axis.kind = "list" /\ axis.v = <<>>
IsZeroInt(axis) == axis.kind = "int" /\ axis.v[1] = 0
Falsy(axis) == axis.kind = "none" \/ IsZeroInt(axis)
               \/ (axis.kind \in {"tuple", "list"} /\ axis.v = <<>>)

\* list(range(len(x.shape)))
RangeList(x) == AxisList([i \in 1..Rank(x) |-> i - 1])

\* The caller's out argument: absent, or a buffer holding a tensor.
NoOut == [absent |-> TRUE]
Exists(out) == out # NoOut

\* What a call leaves: the value returned (a tensor or an error) and the
\* contents of the out buffer.
Outcome(r, o) == [ret |-> r, out |-> o]

\* ivy.inplace_update(out, val): out holds val afterwards and is returned.
inplace_update(out, val) == Outcome(val, val)

\* A backend call given out=out: when out is given and the call does not
\* raise, the backend requires out to have the result's dtype (RuntimeError
\* otherwise), resizes out to the result's shape and writes the result.
NativeOut(r, out) ==
    IF ~Exists(out) \/ IsErr(r) THEN Outcome(r, out)
    ELSE IF out.dtype # r.dtype THEN Outcome(Err("RuntimeError"), out)
    ELSE Outcome(r, r)

\* A result returned without touching out.
Return(r, out) == Outcome(r, out)

\* -------------------------------------------------------------- reductions
\* Outcomes of torch.amin / torch.amax called with dim=None: backend builds
\* whose signature takes dim as a plain int list reject None with a TypeError,
\* the others reduce every dimension.
AminmaxDimNone(kind, x, keepdims) ==
    {Err("TypeError"), TorchReduce(kind, x, <<>>, keepdims)}

\* min without the axis != 0 test: axis=0 takes the reduce-everything path.
min_zero_as_none(x, axis, keepdims, out) ==
    IF IsEmptyTuple(axis)
    THEN IF Exists(out) THEN {inplace_update(out, x)} ELSE {Return(x, out)}
    ELSE IF ~keepdims /\ Falsy(axis)
    THEN {NativeOut(TorchReduce("amin", x, <<>>, FALSE), out)}
    ELSE IF axis.kind = "none"
    THEN {NativeOut(r, out) : r \in AminmaxDimNone("amin", x, keepdims)}
    ELSE {NativeOut(TorchReduce("amin", x, axis.v, keepdims), out)}

min(x, axis, keepdims, out) ==
    IF IsEmptyTuple(axis)
    THEN IF Exists(out) THEN {inplace_update(out, x)} ELSE {Return(x, out)}
    ELSE IF ~keepdims /\ Falsy(axis) /\ ~IsZeroInt(axis)
    THEN {NativeOut(TorchReduce("amin", x, <<>>, FALSE), out)}
    ELSE IF axis.kind = "none"
    THEN {NativeOut(r, out) : r \in AminmaxDimNone("amin", x, keepdims)}
    ELSE {NativeOut(TorchReduce("amin", x, axis.v, keepdims), out)}

max(x, axis, keepdims, out) ==
    IF IsEmptyTuple(axis)
    THEN IF Exists(out) THEN {inplace_update(out, x)} ELSE {Return(x, out)}
    ELSE IF ~keepdims /\ Falsy(axis) /\ ~IsZeroInt(axis)
    THEN {NativeOut(TorchReduce("amax", x, <<>>, FALSE), out)}
    ELSE IF axis.kind = "none"
    THEN {NativeOut(r, out) : r \in AminmaxDimNone("amax", x, keepdims)}
    ELSE {NativeOut(TorchReduce("amax", x, axis.v, keepdims), out)}

mean(x, axis, keepdims, out) ==
    LET axis1 == IF axis.kind = "none" THEN RangeList(x) ELSE axis
    IN  IF IsEmptyTuple(axis1) \/ IsEmptyList(axis1)
        THEN IF Exists(out) THEN inplace_update(out, x) ELSE Return(x, out)
        ELSE NativeOut(TorchReduce("mean", x, axis1.v, keepdims), out)

_infer_dtype(dtype) ==
    LET default_dtype == infer_default_dtype(dtype)
    IN  IF default_dtype \in valid_dtypes
           /\ dtype_bits(dtype) < dtype_bits(default_dtype)
        THEN default_dtype
        ELSE dtype

\* dtype = ivy.as_native_dtype(dtype); if dtype is None: _infer_dtype(x.dtype)
ResolveDtype(x, dtype) == IF dtype = NoDtype THEN _infer_dtype(x.dtype) ELSE dtype

\* torch.sum / torch.prod (x, dims, keepdim, dtype=dtype): the input is
\* converted to dtype before the reduction.
TorchSum(x, dims, keepdim, dtype) == TorchReduce("sum", Cast(x, dtype), dims, keepdim)
TorchProd(x, dims, keepdim, dtype) ==
    IF IsErr(x) THEN x ELSE TorchReduce("prod", Cast(x, dtype), dims, keepdim)

\* for i in axis: x = torch.prod(x, i, keepdim=keepdims, dtype=dtype)
RECURSIVE ProdLoop(_, _, _, _)
ProdLoop(x, axes, keepdims, dtype) ==
    IF axes = <<>> \/ IsErr(x) THEN x
    ELSE ProdLoop(TorchProd(x, <<Head(axes)>>, keepdims, dtype),
                  Tail(axes), keepdims, dtype)

prod(x, axis, dtype, keepdims) ==
    LET dt == ResolveDtype(x, dtype)
    IN  IF IsEmptyTuple(axis) THEN Cast(x, dt)
        ELSE IF axis.kind = "none" THEN TorchProd(x, <<>>, FALSE, dt)
        ELSE IF axis.kind \in {"tuple", "list"} THEN ProdLoop(x, axis.v, keepdims, dt)
        ELSE TorchProd(x, axis.v, keepdims, dt)

\* sum whose axis == () branch returns x without the cast.
sum_nocast(x, axis, dtype, keepdims, out) ==
    LET dt == ResolveDtype(x, dtype)
    IN  IF IsEmptyTuple(axis) THEN Return(x, out)
        ELSE IF axis.kind = "none" THEN Return(TorchSum(x, <<>>, FALSE, dt), out)
        ELSE Return(TorchSum(x, axis.v, keepdims, dt), out)

sum(x, axis, dtype, keepdims, out) ==
    LET dt == ResolveDtype(x, dtype)
    IN  IF IsEmptyTuple(axis) THEN Return(Cast(x, dt), out)
        ELSE IF axis.kind = "none" THEN Return(TorchSum(x, <<>>, FALSE, dt), out)
        ELSE Return(TorchSum(x, axis.v, keepdims, dt), out)

\* x.shape[a] in Python: a negative a counts from the end.
ShapeOk(x, a) == -Rank(x) <= a /\ a < Rank(x)
ShapeAt(x, a) == x.shape[(IF a < 0 THEN a + Rank(x) ELSE a) + 1]

\* size = 1; for a in axis: size *= x.shape[a]
ReducedSize(x, axes) == ProdSeq([i \in DOMAIN axes |-> ShapeAt(x, axes[i])])

\* torch.mul left out: the population estimator is returned as it is.
MulScalar_skip(t, q) == t

\* torch.mul(t, q), q a rational.
MulScalar(t, q) ==
    IF IsErr(t) THEN t
    ELSE Tensor(t.shape, t.dtype, [idx \in DOMAIN t.data |-> FracMul(t.data[idx], q)])

\* torch.mul(t, q ** 0.5) on a tensor of square roots: sqrt(r) * sqrt(q) is
\* sqrt(r * q).
MulSqrtScalar(t, q) ==
    IF IsErr(t) THEN t
    ELSE Tensor(t.shape, t.dtype,
            [idx \in DOMAIN t.data |-> Sqrt(FracMul([t.data[idx] EXCEPT !.root = 1], q))])

\* The NaN fill left out: the population estimator is returned as it is.
FullNaN_skip(t) == t

\* ivy.full(ret.shape, float("nan"), dtype=ret.dtype)
FullNaN(t) == FullLike(t, NaN)

\* correction is held as corr2, twice its value, so that half-integer
\* corrections are integers of the model: size - correction <= 0 is
\* 2 * size - corr2 <= 0 and size / (size - correction) is
\* 2 * size / (2 * size - corr2).
std(x, axis, corr2, keepdims, out) ==
    LET axis1 == IF axis.kind = "none" THEN RangeList(x) ELSE axis
        dims == axis1.v
        size == ReducedSize(x, dims)
    IN  IF IsEmptyTuple(axis1) THEN Return(x, out)
        ELSE IF corr2 = 0
        THEN Return(TorchReduce("std_biased", x, dims, keepdims), out)
        ELSE IF corr2 = 2
        THEN Return(TorchReduce("std_unbiased", x, dims, keepdims), out)
        ELSE IF \E i \in DOMAIN dims : ~ShapeOk(x, dims[i])
        THEN Return(Err("IndexError"), out)
        ELSE IF 2 * size - corr2 <= 0
        THEN Return(FullNaN(TorchReduce("std_biased", x, dims, keepdims)), out)
        ELSE Return(MulSqrtScalar(TorchReduce("std_biased", x, dims, keepdims),
                                  Frac(2 * size, 2 * size - corr2)), out)

var(x, axis, corr2, keepdims, out) ==
    LET axis1 == IF axis.kind = "none" THEN RangeList(x) ELSE axis
        dims == axis1.v
        size == ReducedSize(x, dims)
    IN  IF IsEmptyTuple(axis1) THEN Return(x, out)
        ELSE IF corr2 = 0
        THEN Return(TorchReduce("var_biased", x, dims, keepdims), out)
        ELSE IF corr2 = 2
        THEN Return(TorchReduce("var_unbiased", x, dims, keepdims), out)
        ELSE IF \E i \in DOMAIN dims : ~ShapeOk(x, dims[i])
        THEN Return(Err("IndexError"), out)
        ELSE IF 2 * size - corr2 <= 0
        THEN Return(FullNaN(TorchReduce("var_biased", x, dims, keepdims)), out)
        ELSE Return(Cast(MulScalar(TorchReduce("var_biased", x, dims, keepdims),
                                   Frac(2 * size, 2 * size - corr2)), x.dtype), out)

\* ------------------------------------------------------------------- scans
\* cumprod without the shift by one position: the exclusive branches return
\* the inclusive scan.
cumprod_noshift(x, axis, exclusive, reverse, dtype, out) ==
    LET dt == ResolveDtype(x, dtype)
    IN  IF reverse
        THEN Return(TorchFlip(TorchScan("cumprod", TorchFlip(x, axis), axis, dt), axis), out)
        ELSE NativeOut(TorchScan("cumprod", x, axis, dt), out)

cumprod(x, axis, exclusive, reverse, dtype, out) ==
    LET dt == ResolveDtype(x, dtype)
    IN  IF ~(exclusive \/ reverse)
        THEN NativeOut(TorchScan("cumprod", x, axis, dt), out)
        ELSE IF exclusive /\ reverse
        THEN LET x1 == TorchScan("cumprod", TorchFlip(x, axis), axis, dt)
                 x2 == TorchTranspose(x1, axis, -1)
                 x3 == TorchCat(OnesLike(LastSlice(x2)), DropLast(x2))
                 x4 == TorchTranspose(x3, axis, -1)
             IN  Return(TorchFlip(x4, axis), out)
        ELSE IF exclusive
        THEN LET x1 == TorchTranspose(x, axis, -1)
                 x2 == TorchCat(OnesLike(LastSlice(x1)), DropLast(x1))
                 x3 == TorchScan("cumprod", x2, -1, dt)
             IN  Return(TorchTranspose(x3, axis, -1), out)
        ELSE LET x1 == TorchScan("cumprod", TorchFlip(x, axis), axis, dt)
             IN  Return(TorchFlip(x1, axis), out)

\* cumsum_res without the shift by one position: the exclusive branches
\* return the inclusive scan.
cumsum_res_noshift(x, axis, exclusive, reverse, dt) ==
    IF reverse
    THEN TorchFlip(TorchScan("cumsum", TorchFlip(x, axis), axis, dt), axis)
    ELSE TorchScan("cumsum", x, axis, dt)

\* The value cumsum computes when exclusive or reverse is set.
cumsum_res(x, axis, exclusive, reverse, dt) ==
    IF exclusive /\ reverse
    THEN LET x1 == TorchScan("cumsum", TorchFlip(x, axis), axis, dt)
             x2 == TorchTranspose(x1, axis, -1)
             x3 == TorchCat(ZerosLike(LastSlice(x2)), DropLast(x2))
             x4 == TorchTranspose(x3, axis, -1)
         IN  TorchFlip(x4, axis)
    ELSE IF exclusive
    THEN LET x1 == TorchTranspose(x, axis, -1)
             x2 == TorchCat(ZerosLike(LastSlice(x1)), DropLast(x1))
             x3 == TorchScan("cumsum", x2, -1, dt)
         IN  TorchTranspose(x3, axis, -1)
    ELSE LET x1 == TorchScan("cumsum", TorchFlip(x, axis), axis, dt)
         IN  TorchFlip(x1, axis)

\* cumsum whose reverse branch does not flip the scan back.
cumsum_noflipback(x, axis, exclusive, reverse, dtype, out) ==
    LET dt == ResolveDtype(x, dtype)
    IN  IF reverse /\ ~exclusive
        THEN Return(TorchScan("cumsum", TorchFlip(x, axis), axis, dt), out)
        ELSE IF exclusive
        THEN Return(cumsum_res(x, axis, exclusive, reverse, dt), out)
        ELSE NativeOut(TorchScan("cumsum", x, axis, dt), out)

cumsum(x, axis, exclusive, reverse, dtype, out) ==
    LET dt == ResolveDtype(x, dtype)
    IN  IF exclusive \/ reverse
        THEN LET res == cumsum_res(x, axis, exclusive, reverse, dt)
             IN  IF IsErr(res) THEN Return(res, out)
                 ELSE IF Exists(out) THEN inplace_update(out, res)
                 ELSE Return(res, out)
        ELSE NativeOut(TorchScan("cumsum", x, axis, dt), out)

\* ------------------------------------------------------------------- trapz
\* ivy/functional/backends/torch/extensions/elementwise.py and
\* ivy/array/extensions/elementwise.py.

\* Python's None, as an argument or as the value a function returns when it
\* ends without a return statement.
PyNone == [pynone |-> TRUE]

\* The dx argument: left out by the caller, None, or a number.
DxOmitted == [kind |-> "omitted", v |-> 0]
DxNone == [kind |-> "none", v |-> 0]
DxNum(n) == [kind |-> "num", v |-> n]

\* The shape and the index left when dimension k (1-based) is removed.
RemoveAt(s, k) == [j \in 1..(Len(s) - 1) |-> IF j < k THEN s[j] ELSE s[j + 1]]
InsertAt(s, k, v) ==
    [j \in 1..(Len(s) + 1) |-> IF j < k THEN s[j] ELSE IF j = k THEN v ELSE s[j - 1]]

\* torch.trapezoid(y, dx=dxv, dim=d) on a tensor of rank >= 1: along d, the
\* sum of dxv * (y[i] + y[i+1]) / 2 over the adjacent pairs.
TorchTrapezoidDx(t, dxv, d) ==
    IF ~DimOk(d, Rank(t)) THEN Err("IndexError")
    ELSE LET k == WrapDim(d, Rank(t)) + 1
             n == t.shape[k]
             shp == RemoveAt(t.shape, k)
             At(oidx, i) == t.data[InsertAt(oidx, k, i)].num
         IN  Tensor(shp, t.dtype,
                [oidx \in Indices(shp) |->
                    Frac(dxv * SumSeq([i \in 1..(IF n > 0 THEN n - 1 ELSE 0) |->
                                        At(oidx, i - 1) + At(oidx, i)]), 2)])

\* torch.trapezoid(y, x=x, dim=d), x of y's shape: along d, the sum of
\* (x[i+1] - x[i]) * (y[i] + y[i+1]) / 2 over the adjacent pairs.
TorchTrapezoidX(t, xs, d) ==
    IF ~DimOk(d, Rank(t)) THEN Err("IndexError")
    ELSE LET k == WrapDim(d, Rank(t)) + 1
             n == t.shape[k]
             shp == RemoveAt(t.shape, k)
             At(u, oidx, i) == u.data[InsertAt(oidx, k, i)].num
         IN  Tensor(shp, t.dtype,
                [oidx \in Indices(shp) |->
                    Frac(SumSeq([i \in 1..(IF n > 0 THEN n - 1 ELSE 0) |->
                                    (At(xs, oidx, i) - At(xs, oidx, i - 1))
                                    * (At(t, oidx, i - 1) + At(t, oidx, i))]), 2)])

\* The backend trapz.  With x and dx both given the TypeError is constructed
\* and not raised: the function ends without a return statement.
trapz(yy, xs, dxa, d, out) ==
    IF xs = PyNone
    THEN Return(TorchTrapezoidDx(yy, IF dxa = DxNone THEN 1 ELSE dxa.v, d), out)
    ELSE IF dxa # DxNone
    THEN Return(PyNone, out)
    ELSE Return(TorchTrapezoidX(yy, xs, d), out)

\* Array.trapz: dx defaults to 1.0; ivy.trapz hands the arguments to the
\* backend trapz.
Array_trapz(self, xs, dxa, d, out) ==
    trapz(self, xs, IF dxa = DxOmitted THEN DxNum(1) ELSE dxa, d, out)

\* ------------------------------------------------------------------- state
VARIABLES
    fn,         \* the function called
    x,          \* the input tensor
    axis,       \* the axis argument
    keepdims,   \* reductions: the keepdims flag
    correction, \* std, var: twice the correction
    exclusive,  \* scans: the exclusive flag
    reverse,    \* scans: the reverse flag
    dtype,      \* sum, prod, scans: the dtype argument, or NoDtype
    y,          \* trapz: the integrand
    dx,         \* trapz: the dx argument
    alias,      \* TRUE when the caller passes the input tensor itself as out
    out,        \* the caller's out buffer, or NoOut
    mem,        \* what the caller's input tensor object holds
    ret,        \* the value returned, once the call has run
    pc          \* "call" before the call, "done" after it

vars == <<fn, x, axis, keepdims, correction, exclusive, reverse, dtype, y, dx,
          alias, out, mem, ret, pc>>

args == <<fn, x, axis, keepdims, correction, exclusive, reverse, dtype, y, dx, alias>>

\* ------------------------------------------------------------------ inputs
Shapes ==
    {shp \in UNION {[1..r -> 0..MaxExtent] : r \in 0..MaxRank} :
        ProdSeq(shp) <= MaxElems}

InputVals == (0..MaxVal) \cup {WideVal}

Tensors(d) ==
    UNION {{Tensor(shp, d, data) :
                data \in [Indices(shp) -> {MkVal(v, d) : v \in InputVals}]} :
           shp \in Shapes}

\* Sequences of distinct valid axes of a rank-r tensor, at most MaxAxes long.
AxisSeqs(r) ==
    {s \in UNION {[1..n -> 0..(r - 1)] : n \in 1..MaxAxes} :
        \A i, j \in DOMAIN s : i # j => s[i] # s[j]}

\* The axis arguments of the reductions: None, (), [], a valid int, a tuple
\* or a list of distinct valid ints.
AxisArgs(r) ==
    {AxisNone, AxisTuple(<<>>), AxisList(<<>>)}
    \cup {AxisInt(a) : a \in 0..(r - 1)}
    \cup {AxisTuple(s) : s \in AxisSeqs(r)}
    \cup {AxisList(s) : s \in AxisSeqs(r)}

DtypeArgs == {NoDtype, "int8", "float32"}

\* The tensors whose every element is WideVal.
Filled(d) ==
    {Tensor(shp, d, [idx \in Indices(shp) |-> MkVal(WideVal, d)]) : shp \in Shapes}

\* Axis numbers a caller may pass for a rank-r tensor, the valid ones (torch
\* counts negative numbers from the end) and one beyond them on each side.
AnyAxes(r) == (-(r + 1))..r

\* Axis sequences a caller may pass, at most MaxAxes long: elements may
\* repeat and may be out of range.
AnyAxisSeqs(r) == UNION {[1..n -> (-1)..r] : n \in 1..MaxAxes}

AnyAxisArgs(r) ==
    {AxisNone, AxisTuple(<<>>), AxisList(<<>>)}
    \cup {AxisInt(a) : a \in AnyAxes(r)}
    \cup {AxisTuple(s) : s \in AnyAxisSeqs(r)}
    \cup {AxisList(s) : s \in AnyAxisSeqs(r)}

\* Twice one correction for each branch of std and var: 0, 1 and 3/2.
BranchCorrections == {0, 2, 3}

ScanFns == {"cumsum", "cumprod"}
FloatFns == {"mean", "std", "var"}
AllFns == {"min", "max", "mean", "prod", "sum", "std", "var", "cumsum", "cumprod"}

Corrections == 0..MaxCorr2

\* An out buffer of the caller, of dtype d, holding what it held before the
\* call.
PriorOut(d) == Tensor(<<1>>, d, [idx \in Indices(<<1>>) |-> MkVal(-7, d)])

\* The out arguments of a call whose result has dtype d: absent, or a buffer
\* of dtype d.
Outs(d) == {NoOut, PriorOut(d)}

NoRet == [none |-> TRUE]

\* The value of an argument the function called does not have.
NoArg == [noarg |-> TRUE]

\* ---------------------------------------------------------- specifications
InitScan ==
    /\ fn \in {"cumsum", "cumprod"}
    /\ x \in {t \in Tensors("int16") : Rank(t) >= 1}
    /\ axis \in {AxisInt(a) : a \in 0..(Rank(x) - 1)}
    /\ exclusive \in BOOLEAN
    /\ reverse \in BOOLEAN
    /\ dtype \in DtypeArgs
    /\ out \in Outs(ResolveDtype(x, dtype))
    /\ keepdims = FALSE
    /\ correction = 0
    /\ y = NoArg
    /\ dx = NoArg
    /\ alias = FALSE
    /\ mem = x
    /\ ret = NoRet
    /\ pc = "call"

InitReduce ==
    /\ fn \in {"min", "max", "mean", "prod", "sum"}
    /\ x \in Tensors(IF fn = "mean" THEN "float32" ELSE "int16")
    /\ axis \in AxisArgs(Rank(x))
    /\ keepdims \in BOOLEAN
    /\ dtype \in (IF fn \in {"prod", "sum"} THEN DtypeArgs ELSE {NoDtype})
    /\ out \in (IF fn = "prod" THEN {NoOut}
                ELSE IF fn = "sum" THEN Outs(ResolveDtype(x, dtype))
                ELSE Outs(x.dtype))
    /\ exclusive = FALSE
    /\ reverse = FALSE
    /\ correction = 0
    /\ y = NoArg
    /\ dx = NoArg
    /\ alias = FALSE
    /\ mem = x
    /\ ret = NoRet
    /\ pc = "call"

InitVar ==
    /\ fn \in {"std", "var"}
    /\ x \in Tensors("float32")
    /\ axis \in AxisArgs(Rank(x))
    /\ keepdims \in BOOLEAN
    /\ correction \in Corrections
    /\ out \in Outs(x.dtype)
    /\ dtype = NoDtype
    /\ exclusive = FALSE
    /\ reverse = FALSE
    /\ y = NoArg
    /\ dx = NoArg
    /\ alias = FALSE
    /\ mem = x
    /\ ret = NoRet
    /\ pc = "call"

\* A call of any of the nine functions without out, with any axis argument.
InitAxes ==
    /\ fn \in AllFns
    /\ x \in Filled(IF fn \in FloatFns THEN "float32" ELSE "int16")
    /\ axis \in (IF fn \in ScanFns THEN {AxisInt(a) : a \in AnyAxes(Rank(x))}
                 ELSE AnyAxisArgs(Rank(x)))
    /\ keepdims \in (IF fn \in ScanFns THEN {FALSE} ELSE BOOLEAN)
    /\ correction \in (IF fn \in {"std", "var"} THEN BranchCorrections ELSE {0})
    /\ exclusive \in (IF fn \in ScanFns THEN BOOLEAN ELSE {FALSE})
    /\ reverse \in (IF fn \in ScanFns THEN BOOLEAN ELSE {FALSE})
    /\ dtype = NoDtype
    /\ out = NoOut
    /\ y = NoArg
    /\ dx = NoArg
    /\ alias = FALSE
    /\ mem = x
    /\ ret = NoRet
    /\ pc = "call"

\* A call of any of the nine functions with valid axes and with out absent,
\* a buffer of the caller distinct from x or, for the scans, x itself.
InitOut ==
    /\ fn \in AllFns
    /\ x \in (IF fn \in ScanFns THEN {t \in Tensors("int16") : Rank(t) >= 1}
              ELSE Filled(IF fn \in FloatFns THEN "float32" ELSE "int16"))
    /\ axis \in (IF fn \in ScanFns THEN {AxisInt(a) : a \in 0..(Rank(x) - 1)}
                 ELSE AxisArgs(Rank(x)))
    /\ keepdims \in (IF fn \in ScanFns THEN {FALSE} ELSE BOOLEAN)
    /\ correction \in (IF fn \in {"std", "var"} THEN BranchCorrections ELSE {0})
    /\ exclusive \in (IF fn \in ScanFns THEN BOOLEAN ELSE {FALSE})
    /\ reverse \in (IF fn \in ScanFns THEN BOOLEAN ELSE {FALSE})
    /\ dtype \in (IF fn \in ScanFns THEN {NoDtype, x.dtype} ELSE {NoDtype})
    /\ alias \in (IF fn \in ScanFns THEN BOOLEAN ELSE {FALSE})
    /\ out \in (IF alias THEN {x}
                ELSE IF fn = "prod" THEN {NoOut}
                ELSE IF fn \in ScanFns \cup {"sum"} THEN Outs(ResolveDtype(x, dtype))
                ELSE Outs(x.dtype))
    /\ y = NoArg
    /\ dx = NoArg
    /\ mem = x
    /\ ret = NoRet
    /\ pc = "call"

\* The sample points given to trapz for the integrand t: None, or a tensor of
\* t's shape whose points lie 2 apart along every axis.
SamplePoints(t) ==
    {PyNone,
     Tensor(t.shape, "float32", [idx \in Indices(t.shape) |-> Frac(2 * SumSeq(idx), 1)])}

DxArgs == {DxOmitted, DxNone, DxNum(1), DxNum(2)}

\* A call of trapz or of Array.trapz.
InitTrapz ==
    /\ fn \in {"trapz", "Array_trapz"}
    /\ y \in {t \in Tensors("float32") : Rank(t) >= 1}
    /\ x \in SamplePoints(y)
    /\ dx \in DxArgs
    /\ axis \in {AxisInt(a) : a \in (-1)..(Rank(y) - 1)}
    /\ keepdims = FALSE
    /\ correction = 0
    /\ exclusive = FALSE
    /\ reverse = FALSE
    /\ dtype = NoDtype
    /\ out = NoOut
    /\ alias = FALSE
    /\ mem = y
    /\ ret = NoRet
    /\ pc = "call"

\* Finish for a call that computes in place: the input tensor object holds
\* the result afterwards.
Finish_inplace(o) ==
    /\ ret' = o.ret
    /\ out' = o.out
    /\ mem' = (IF IsTensor(o.ret) THEN o.ret ELSE mem)
    /\ pc' = "done"
    /\ UNCHANGED args

\* The call returns (or raises): ret and out take the outcome o.  No function
\* writes a tensor of the caller other than out, so the input tensor object
\* changes only when it is out itself.
Finish(o) ==
    /\ ret' = o.ret
    /\ out' = o.out
    /\ mem' = (IF alias THEN o.out ELSE mem)
    /\ pc' = "done"
    /\ UNCHANGED args

Min ==
    /\ pc = "call" /\ fn = "min"
    /\ \E o \in min(x, axis, keepdims, out) : Finish(o)

Max ==
    /\ pc = "call" /\ fn = "max"
    /\ \E o \in max(x, axis, keepdims, out) : Finish(o)

Mean ==
    /\ pc = "call" /\ fn = "mean"
    /\ Finish(mean(x, axis, keepdims, out))

Prod ==
    /\ pc = "call" /\ fn = "prod"
    /\ Finish(Return(prod(x, axis, dtype, keepdims), out))

Sum ==
    /\ pc = "call" /\ fn = "sum"
    /\ Finish(sum(x, axis, dtype, keepdims, out))

Std ==
    /\ pc = "call" /\ fn = "std"
    /\ Finish(std(x, axis, correction, keepdims, out))

Var ==
    /\ pc = "call" /\ fn = "var"
    /\ Finish(var(x, axis, correction, keepdims, out))

Cumprod ==
    /\ pc = "call" /\ fn = "cumprod"
    /\ Finish(cumprod(x, axis.v[1], exclusive, reverse, dtype, out))

Cumsum ==
    /\ pc = "call" /\ fn = "cumsum"
    /\ Finish(cumsum(x, axis.v[1], exclusive, reverse, dtype, out))

\* trapz(y, x=x, dx=dx, axis=axis): a dx left out is the default None.
Trapz ==
    /\ pc = "call" /\ fn = "trapz"
    /\ Finish(trapz(y, x, IF dx = DxOmitted THEN DxNone ELSE dx, axis.v[1], out))

ArrayTrapz ==
    /\ pc = "call" /\ fn = "Array_trapz"
    /\ Finish(Array_trapz(y, x, dx, axis.v[1], out))

NextScan == Cumprod \/ Cumsum

NextTrapz == Trapz \/ ArrayTrapz

NextReduce == Min \/ Max \/ Mean \/ Prod \/ Sum

NextVar == Std \/ Var

NextCall == NextReduce \/ NextVar \/ NextScan

SpecScan == InitScan /\ [][NextScan]_vars

SpecReduce == InitReduce /\ [][NextReduce]_vars

SpecVar == InitVar /\ [][NextVar]_vars

SpecAxes == InitAxes /\ [][NextCall]_vars

SpecOut == InitOut /\ [][NextCall]_vars

SpecTrapz == InitTrapz /\ [][NextTrapz]_vars

\* ------------------------------------------------------------------ claims
\* Definitions the claims are stated with, written from the claims' words
\* and not from the code.

\* The sum of f[e] over the elements e of the finite set S.
RECURSIVE SumOf(_, _)
SumOf(S, f) == IF S = {} THEN 0
               ELSE LET e == CHOOSE e \in S : TRUE IN f[e] + SumOf(S \ {e}, f)

\* The shape of a tensor of shape shp with the axes in the set axs removed
\* (keep = FALSE) or set to extent 1 (keep = TRUE).
ShapeWithout(shp, axs, keep) ==
    LET F[k \in 0..Len(shp)] ==
            IF k = 0 THEN <<>>
            ELSE IF (k - 1) \in axs
                 THEN (IF keep THEN Append(F[k - 1], 1) ELSE F[k - 1])
                 ELSE Append(F[k - 1], shp[k])
    IN  F[Len(shp)]

\* The call has returned.
Done == pc = "done"

\* The call was given an out buffer.
OutGiven == out # NoOut

\* The axis argument names axes to reduce: absent (all of them), an int, or
\* a non-empty tuple or list.
Reducing == axis.kind \in {"none", "int"} \/ axis.v # <<>>

\* The set of the elements of a sequence.
Range(s) == {s[i] : i \in DOMAIN s}

\* The set of axes a reducing call names.
NamedAxes == IF axis.kind = "none" THEN 0..(Rank(x) - 1) ELSE Range(axis.v)

\* The dtype the call resolves its dtype argument to.
Resolved == IF dtype = NoDtype THEN _infer_dtype(x.dtype) ELSE dtype

\* The integers the 1-D input holds, by position.
Elem1 == [j \in 0..(x.shape[1] - 1) |-> IntOf(x.data[<<j>>], x.dtype)]

\* The positions j a 1-D scan adds into position i.
ScanRange(i) ==
    {j \in 0..(x.shape[1] - 1) :
        IF exclusive /\ reverse THEN j > i
        ELSE IF exclusive THEN j < i
        ELSE IF reverse THEN j >= i
        ELSE j <= i}

\* C1: for a 1-D x, cumsum(x, exclusive=True)[i] is the sum of x[j], j < i;
\* cumsum(x, reverse=True)[i] is the sum of x[j], j >= i; and
\* cumsum(x, exclusive=True, reverse=True)[i] is the sum of x[j], j > i
\* (each sum held in the output dtype; the empty sum is 0).
C1_ScanSums ==
    (Done /\ fn = "cumsum" /\ Rank(x) = 1 /\ (exclusive \/ reverse)) =>
        /\ IsTensor(ret)
        /\ ret.shape = x.shape
        /\ \A i \in 0..(x.shape[1] - 1) :
              ret.data[<<i>>] = MkVal(SumOf(ScanRange(i), Elem1), ret.dtype)

\* C1 witness: an exclusive reverse cumsum of three non-zero elements has
\* returned the sums of the elements after each position.
C1_Witness ==
    /\ Done /\ fn = "cumsum" /\ exclusive /\ reverse /\ dtype = NoDtype
    /\ x.shape = <<3>>
    /\ \A j \in 0..2 : x.data[<<j>>] # 0
    /\ ret.data[<<0>>] = x.data[<<1>>] + x.data[<<2>>]
    /\ ret.data[<<1>>] = x.data[<<2>>]
    /\ ret.data[<<2>>] = 0

\* The input has no dimension of extent 0.
NonEmpty == \A k \in 1..Rank(x) : x.shape[k] > 0

\* C2: for every reduce kind and every axis given as one valid integer or a
\* sequence of distinct valid integers, the result has the input shape with
\* exactly the named axes removed (keepdims false) or set to extent 1
\* (keepdims true), the axes numbered as in the original input.  Stated for
\* inputs without a dimension of extent 0, where every kind has a value.
C2_ReducedShape ==
    (Done /\ axis.kind # "none" /\ axis.v # <<>> /\ NonEmpty) =>
        /\ IsTensor(ret)
        /\ ret.shape = ShapeWithout(x.shape, NamedAxes, keepdims)

\* The product of the extents of x along the named axes.
SizeAlong ==
    LET s == SetToSeq(NamedAxes) IN ProdSeq([i \in DOMAIN s |-> x.shape[s[i] + 1]])

\* C3: for std and var reducing over axes of total extent size, whenever
\* size - correction <= 0 the call returns a tensor of the normal output
\* shape whose every position is NaN, for every correction (0, 1 and size
\* included).  correction holds twice the correction.
C3_DegenerateNaN ==
    (Done /\ fn \in {"std", "var"} /\ Reducing /\ 2 * SizeAlong - correction <= 0) =>
        /\ IsTensor(ret)
        /\ ret.shape = ShapeWithout(x.shape, NamedAxes, keepdims)
        /\ \A idx \in Indices(ret.shape) : IsNaN(ret.data[idx])

\* C3 witness: var with correction = size = 2 has returned a non-empty tensor
\* of NaN.
C3_Witness ==
    /\ Done /\ fn = "var" /\ Reducing
    /\ SizeAlong = 2 /\ correction = 2 * SizeAlong
    /\ IsTensor(ret)
    /\ Indices(ret.shape) # {}
    /\ \A idx \in Indices(ret.shape) : IsNaN(ret.data[idx])

\* C4: sum(T, axis=(), dtype=D) with an explicit D equals T cast to D: T's
\* shape, no dimension reduced, every element converted to D.
C4_EmptyAxisSum ==
    (Done /\ fn = "sum" /\ IsEmptyTuple(axis) /\ dtype # NoDtype) =>
        /\ IsTensor(ret)
        /\ ret.shape = x.shape
        /\ ret.dtype = dtype
        /\ \A idx \in Indices(x.shape) :
              ret.data[idx] = ConvertVal(x.data[idx], x.dtype, dtype)

\* C4 witness: sum over axis=() with dtype=int8 has returned an element that
\* the cast changed (WideVal does not fit int8).
C4_Witness ==
    /\ Done /\ fn = "sum" /\ IsEmptyTuple(axis) /\ dtype = "int8"
    /\ x.shape = <<2>>
    /\ x.data[<<0>>] = WideVal
    /\ ret.shape = <<2>>
    /\ ret.data[<<0>>] = WideVal - 256
    /\ ret.data[<<1>>] = x.data[<<1>>]

\* C5: for each reduce kind a call whose axis is an explicitly empty
\* collection, () or [], performs no reduction: the result has the input's
\* shape and values, cast to the resolved dtype for sum and prod.  Stated for
\* inputs without a dimension of extent 0.
C5_EmptyAxisNoReduction ==
    (Done /\ axis.kind \in {"tuple", "list"} /\ axis.v = <<>> /\ NonEmpty) =>
        ret = (IF fn \in {"sum", "prod"} THEN Cast(x, Resolved) ELSE x)

\* C6: for each reduce kind a call with axis absent reduces every dimension:
\* the result returned is 0-d when keepdims is false and has the input's rank
\* with every extent 1 when keepdims is true.
C6_AbsentAxisReducesAll ==
    (Done /\ axis.kind = "none" /\ IsTensor(ret)) =>
        ret.shape = (IF keepdims THEN [k \in 1..Rank(x) |-> 1] ELSE <<>>)

\* C7: when an out buffer is supplied to cumsum or cumprod, for each of the
\* four exclusive/reverse combinations out holds the returned result after
\* the call.
C7_ScanWritesOut ==
    (Done /\ fn \in {"cumsum", "cumprod"} /\ OutGiven /\ IsTensor(ret)) => out = ret

\* C8: when an out buffer is supplied to sum, min, max, mean, std or var, for
\* every axis argument out holds the returned result after the call.
C8_ReduceWritesOut ==
    (Done /\ fn \in {"sum", "min", "max", "mean", "std", "var"}
          /\ OutGiven /\ IsTensor(ret)) => out = ret

\* The index of the result a reduction over the named axes sends the input
\* index idx to.
Project(idx) ==
    LET F[k \in 0..Len(idx)] ==
            IF k = 0 THEN <<>>
            ELSE IF (k - 1) \in NamedAxes
                 THEN (IF keepdims THEN Append(F[k - 1], 0) ELSE F[k - 1])
                 ELSE Append(F[k - 1], idx[k])
    IN  F[Len(idx)]

\* The sum of squared deviations from the mean of the input elements reduced
\* into position oidx, divided by (size - correction): with n elements v of
\* sum s, the deviations are (n * v - s) / n.
Estimator(oidx) ==
    LET G == {idx \in Indices(x.shape) : Project(idx) = oidx}
        n == Cardinality(G)
        v == [idx \in G |-> IntOf(x.data[idx], x.dtype)]
        s == SumOf(G, v)
        dev2 == [idx \in G |-> (n * v[idx] - s) * (n * v[idx] - s)]
    IN  Frac(2 * SumOf(G, dev2), n * n * (2 * n - correction))

\* C9: for var with size - correction > 0 each result element is the sum of
\* squared deviations from the mean along the reduced axes divided by
\* (size - correction); std is the square root of that value.
C9_Estimator ==
    (Done /\ fn \in {"std", "var"} /\ Reducing /\ 2 * SizeAlong - correction > 0) =>
        /\ IsTensor(ret)
        /\ ret.shape = ShapeWithout(x.shape, NamedAxes, keepdims)
        /\ \A oidx \in Indices(ret.shape) :
              ret.data[oidx] = (IF fn = "std" THEN Sqrt(Estimator(oidx))
                                ELSE Estimator(oidx))

\* C9 witness: var of the two elements 0 and WideVal with correction 3/2 has
\* returned WideVal^2 / 4 * (2 / (2 - 3/2)) = WideVal^2.
C9_Witness ==
    /\ Done /\ fn = "var" /\ correction = 3 /\ axis = AxisInt(0)
    /\ x.shape = <<2>>
    /\ x.data[<<0>>] = Frac(0, 1) /\ x.data[<<1>>] = Frac(WideVal, 1)
    /\ IsTensor(ret)
    /\ ret.data[<<>>] = Frac(WideVal * WideVal, 1)

\* The scanned axis of the call has extent 1.
ScanAxisIsOne == Rank(x) >= 1 /\ x.shape[axis.v[1] + 1] = 1

\* C10 as stated: for T.shape[k] == 1, cumsum(T, axis=k) returns T's shape and
\* T's values (in the output dtype) for each of the four combinations of
\* exclusive and reverse.
C10_Unchanged ==
    (Done /\ fn = "cumsum" /\ ScanAxisIsOne) =>
        /\ IsTensor(ret)
        /\ ret.shape = x.shape
        /\ \A idx \in Indices(x.shape) :
              ret.data[idx] = ConvertVal(x.data[idx], x.dtype, ret.dtype)

\* C10 amended: for T.shape[k] == 1, cumsum(T, axis=k) has T's shape; with
\* exclusive=False it holds T's values (in the output dtype) for both values
\* of reverse, and with exclusive=True every element is 0, the identity.
C10_IdentityOrUnchanged ==
    (Done /\ fn = "cumsum" /\ ScanAxisIsOne) =>
        /\ IsTensor(ret)
        /\ ret.shape = x.shape
        /\ \A idx \in Indices(x.shape) :
              ret.data[idx] = (IF exclusive THEN MkVal(0, ret.dtype)
                               ELSE ConvertVal(x.data[idx], x.dtype, ret.dtype))

\* C10 witness: an exclusive cumsum along an axis of extent 1 has returned 0
\* where the input holds WideVal.
C10_Witness ==
    /\ Done /\ fn = "cumsum" /\ ScanAxisIsOne /\ exclusive /\ dtype = NoDtype
    /\ Indices(x.shape) # {}
    /\ \A idx \in Indices(x.shape) : x.data[idx] = WideVal /\ ret.data[idx] = 0

\* The extent of the scanned axis (axis is a valid non-negative int).
ScanExtent == x.shape[axis.v[1] + 1]

\* The call is a scan.
IsScan == fn \in {"cumsum", "cumprod"}

\* The identity element of the scan called.
Identity == IF fn = "cumsum" THEN 0 ELSE 1

\* C11: for cumsum and cumprod along an axis of extent 0 or 1, every
\* combination of exclusive and reverse returns without error a result of the
\* input's shape (empty at extent 0); at extent 1 with exclusive=True every
\* element is the identity element, 0 for cumsum and 1 for cumprod.
C11_DegenerateScans ==
    (Done /\ IsScan /\ ScanExtent \in {0, 1}) =>
        /\ IsTensor(ret)
        /\ ret.shape = x.shape
        /\ (ScanExtent = 0 => Indices(ret.shape) = {})
        /\ (ScanExtent = 1 /\ exclusive =>
                \A idx \in Indices(ret.shape) : ret.data[idx] = MkVal(Identity, ret.dtype))

\* C11 witness: an exclusive reverse cumprod along the extent-1 axis of a
\* (1, 2) tensor of WideVal has returned a (1, 2) tensor of ones.
C11_Witness ==
    /\ Done /\ fn = "cumprod" /\ exclusive /\ reverse
    /\ x.shape = <<1, 2>> /\ axis = AxisInt(0)
    /\ \A idx \in Indices(x.shape) : x.data[idx] = WideVal
    /\ IsTensor(ret) /\ ret.shape = <<1, 2>>
    /\ \A idx \in Indices(ret.shape) : ret.data[idx] = MkVal(1, ret.dtype)

\* The product of f[e] over the elements e of the finite set S.
RECURSIVE ProdOf(_, _)
ProdOf(S, f) == IF S = {} THEN 1
                ELSE LET e == CHOOSE e \in S : TRUE IN f[e] * ProdOf(S \ {e}, f)

\* C12: for a 1-D x, cumprod(x, exclusive=True)[i] is the product of x[j],
\* j < i (1 at i = 0); cumprod(x, reverse=True)[i] is the product of x[j],
\* j >= i; and cumprod(x, exclusive=True, reverse=True)[i] is the product of
\* x[j], j > i (1 at i = n-1), each product held in the output dtype.
C12_ScanProducts ==
    (Done /\ fn = "cumprod" /\ Rank(x) = 1 /\ (exclusive \/ reverse)) =>
        /\ IsTensor(ret)
        /\ ret.shape = x.shape
        /\ \A i \in 0..(x.shape[1] - 1) :
              ret.data[<<i>>] = MkVal(ProdOf(ScanRange(i), Elem1), ret.dtype)

\* C12 witness: an exclusive reverse cumprod of three elements WideVal has
\* returned WideVal^2, WideVal, 1.
C12_Witness ==
    /\ Done /\ fn = "cumprod" /\ exclusive /\ reverse /\ dtype = NoDtype
    /\ x.shape = <<3>>
    /\ \A j \in 0..2 : x.data[<<j>>] = WideVal
    /\ ret.data[<<0>>] = WideVal * WideVal
    /\ ret.data[<<1>>] = WideVal
    /\ ret.data[<<2>>] = 1

\* The tensor t with the order of its elements along axis k reversed.
Flipped(t, k) ==
    Tensor(t.shape, t.dtype,
        [idx \in Indices(t.shape) |->
            t.data[[idx EXCEPT ![k + 1] = t.shape[k + 1] - 1 - idx[k + 1]]]])

\* What the scan called returns on the flipped input with reverse=False and
\* the other arguments as they are.
ForwardOfFlipped ==
    IF fn = "cumsum"
    THEN cumsum(Flipped(x, axis.v[1]), axis.v[1], exclusive, FALSE, dtype, NoOut).ret
    ELSE cumprod(Flipped(x, axis.v[1]), axis.v[1], exclusive, FALSE, dtype, NoOut).ret

\* C13: for cumsum and cumprod, every x, valid axis and value e of exclusive,
\* scan(x, axis, exclusive=e, reverse=True) equals
\* flip(scan(flip(x, axis), axis, exclusive=e, reverse=False), axis).
C13_ReverseIsFlip ==
    (Done /\ IsScan /\ reverse) =>
        /\ IsTensor(ret)
        /\ IsTensor(ForwardOfFlipped)
        /\ ret = Flipped(ForwardOfFlipped, axis.v[1])

\* C13 witness: an exclusive reverse cumsum of (0, WideVal, WideVal) has
\* returned (2 WideVal, WideVal, 0), the flip of the exclusive forward scan
\* (0, WideVal, 2 WideVal) of the flipped input.
C13_Witness ==
    /\ Done /\ fn = "cumsum" /\ exclusive /\ reverse /\ dtype = NoDtype
    /\ x.shape = <<3>>
    /\ x.data[<<0>>] = 0 /\ x.data[<<1>>] = WideVal /\ x.data[<<2>>] = WideVal
    /\ ret.data[<<0>>] = 2 * WideVal /\ ret.data[<<1>>] = WideVal /\ ret.data[<<2>>] = 0
    /\ ForwardOfFlipped.data[<<2>>] = 2 * WideVal

\* The output dtype the dtype rule gives the call: for sum, prod, cumsum and
\* cumprod the explicit dtype, or without one the default dtype of the
\* input's kind when it is valid and strictly wider than the input dtype and
\* the input dtype otherwise; for min, max and mean the input dtype.
ExpectedDtype ==
    IF fn \in {"sum", "prod", "cumsum", "cumprod"}
    THEN IF dtype # NoDtype THEN dtype
         ELSE IF infer_default_dtype(x.dtype) \in valid_dtypes
                 /\ dtype_bits(x.dtype) < dtype_bits(infer_default_dtype(x.dtype))
         THEN infer_default_dtype(x.dtype)
         ELSE x.dtype
    ELSE x.dtype

\* C14: the tensor a call of sum, prod, cumsum, cumprod, min, max or mean
\* returns has the dtype the dtype rule gives, and without an explicit dtype
\* it is never narrower than the input.
C14_OutputDtype ==
    (Done /\ IsTensor(ret)) =>
        /\ ret.dtype = ExpectedDtype
        /\ (dtype = NoDtype => dtype_bits(ret.dtype) >= dtype_bits(x.dtype))

\* The largest and the smallest element of a non-empty finite set of integers.
SetMax(S) == CHOOSE m \in S : \A e \in S : e <= m
SetMin(S) == CHOOSE m \in S : \A e \in S : m <= e

\* The input elements a reduction over the named axes sends to position oidx.
Reduced(oidx) ==
    {IntOf(x.data[idx], x.dtype) : idx \in {i \in Indices(x.shape) : Project(i) = oidx}}

\* C19: for min and max with axis=0 only dimension 0 is reduced, for both
\* values of keepdims: the result has the input shape without dimension 0
\* (or with it as extent 1 under keepdims) and holds the extreme of each
\* slice along dimension 0; with axis=None and keepdims=False every
\* dimension is reduced.  Stated for inputs without a dimension of extent 0.
C19_AxisZeroReducesDimZero ==
    (Done /\ fn \in {"min", "max"} /\ NonEmpty) =>
        /\ (axis = AxisInt(0) /\ Rank(x) >= 1 =>
                /\ IsTensor(ret)
                /\ ret.shape = ShapeWithout(x.shape, {0}, keepdims)
                /\ \A oidx \in Indices(ret.shape) :
                      ret.data[oidx] = (IF fn = "min" THEN SetMin(Reduced(oidx))
                                        ELSE SetMax(Reduced(oidx))))
        /\ (axis = AxisNone /\ ~keepdims => IsTensor(ret) /\ ret.shape = <<>>)

\* C19 witness: min with axis=0 and keepdims=False on the (2, 1) tensor
\* ((WideVal), (0)) has returned the 1-D tensor (0), not a 0-d one.
C19_Witness ==
    /\ Done /\ fn = "min" /\ axis = AxisInt(0) /\ ~keepdims
    /\ x.shape = <<2, 1>>
    /\ x.data[<<0, 0>>] = WideVal /\ x.data[<<1, 0>>] = 0
    /\ IsTensor(ret) /\ ret.shape = <<1>> /\ ret.data[<<0>>] = 0

\* An axis number of the call is in range when torch's wrapping of negative
\* numbers puts it into [0, rank); Normal is the axis it then names.
InRange(a) == -Rank(x) <= a /\ a < Rank(x)
Normal(a) == IF a < 0 THEN a + Rank(x) ELSE a

\* The axis argument holds an index out of range or names an axis twice.
InvalidAxis ==
    /\ axis.kind # "none"
    /\ \/ \E i \in DOMAIN axis.v : ~InRange(axis.v[i])
       \/ \E i, j \in DOMAIN axis.v : i < j /\ Normal(axis.v[i]) = Normal(axis.v[j])

\* C15: no reduce or scan call whose axis argument contains an index out of
\* range or the same axis twice returns a result: the call raises.  Stated
\* for inputs of rank >= 1 with negative numbers taken as the backend takes
\* them, counted from the end.
C15_InvalidAxisRaises ==
    (Done /\ Rank(x) >= 1 /\ InvalidAxis) => IsErr(ret)

\* C20: for cumsum and cumprod, every tensor of rank >= 1, every valid axis
\* (the last axis and negative numbers included) and each of the four
\* exclusive/reverse combinations, the result shape equals the input shape.
C20_ScanKeepsShape ==
    (Done /\ IsScan /\ Rank(x) >= 1 /\ InRange(axis.v[1])) =>
        /\ IsTensor(ret)
        /\ ret.shape = x.shape

\* C20 witness: an exclusive reverse cumsum of a (3, 1) tensor along axis -2
\* has returned a (3, 1) tensor.
C20_Witness ==
    /\ Done /\ fn = "cumsum" /\ exclusive /\ reverse
    /\ x.shape = <<3, 1>> /\ axis = AxisInt(-2)
    /\ IsTensor(ret) /\ ret.shape = <<3, 1>>
    /\ ret.data[<<0, 0>>] = 2 * WideVal /\ ret.data[<<2, 0>>] = 0

\* The trapz call receives sample points and a spacing that is not None:
\* Array.trapz turns a dx left out into 1.0, trapz into None.
SamplesAndSpacing ==
    /\ fn \in {"trapz", "Array_trapz"}
    /\ x # PyNone
    /\ (IF fn = "Array_trapz" THEN dx # DxNone ELSE dx.kind = "num")

\* C16: a trapz call that receives both sample points x and a non-None
\* spacing dx (Array.trapz called with x and its default dx included)
\* raises; it never returns None.
C16_TrapzRaises ==
    (Done /\ SamplesAndSpacing) => (IsErr(ret) /\ ret # PyNone)

\* What the scan called returns when it is given a fresh buffer of the
\* result's dtype as out and the other arguments as they are.
FreshResult ==
    IF fn = "cumsum"
    THEN cumsum(x, axis.v[1], exclusive, reverse, dtype, PriorOut(Resolved)).ret
    ELSE cumprod(x, axis.v[1], exclusive, reverse, dtype, PriorOut(Resolved)).ret

\* C17: when the out buffer passed to cumsum or cumprod is the input x
\* itself and the call returns, for each exclusive/reverse combination out
\* holds the values of the result the same call gives with a fresh,
\* non-aliased out.
C17_AliasedOutHoldsResult ==
    (Done /\ IsScan /\ alias /\ IsTensor(ret)) =>
        /\ IsTensor(FreshResult)
        /\ out.shape = FreshResult.shape /\ out.data = FreshResult.data
        /\ mem.shape = FreshResult.shape /\ mem.data = FreshResult.data

InclusiveResult ==
    IF fn = "cumsum"
    THEN cumsum(x, axis.v[1], FALSE, reverse, dtype, NoOut).ret
    ELSE cumprod(x, axis.v[1], FALSE, reverse, dtype, NoOut).ret

\* The exclusive result at idx combined with the input element at idx, held
\* in the result's dtype.
WithElement(idx) ==
    MkVal(IF fn = "cumsum"
          THEN IntOf(ret.data[idx], ret.dtype) + IntOf(x.data[idx], x.dtype)
          ELSE IntOf(ret.data[idx], ret.dtype) * IntOf(x.data[idx], x.dtype),
          ret.dtype)

\* C21: for every x, axis and value r of reverse,
\* cumsum(x, exclusive=True, reverse=r)[i] + x[i] equals
\* cumsum(x, exclusive=False, reverse=r)[i] and
\* cumprod(x, exclusive=True, reverse=r)[i] * x[i] equals
\* cumprod(x, exclusive=False, reverse=r)[i] at every position, the sum and
\* the product taken in the output dtype.
C21_ExclusivePlusElement ==
    (Done /\ IsScan /\ exclusive) =>
        /\ IsTensor(ret)
        /\ IsTensor(InclusiveResult)
        /\ ret.shape = InclusiveResult.shape
        /\ ret.dtype = InclusiveResult.dtype
        /\ \A idx \in Indices(ret.shape) : WithElement(idx) = InclusiveResult.data[idx]

\* C21 witness: an exclusive reverse cumprod of three elements WideVal has
\* returned WideVal^2 at position 0, where the inclusive reverse cumprod
\* holds WideVal^3.
C21_Witness ==
    /\ Done /\ fn = "cumprod" /\ exclusive /\ reverse /\ dtype = NoDtype
    /\ x.shape = <<3>>
    /\ \A j \in 0..2 : x.data[<<j>>] = WideVal
    /\ ret.data[<<0>>] = WideVal * WideVal
    /\ InclusiveResult.data[<<0>>] = WideVal * WideVal * WideVal

\* What the reduction of the scan's kind returns for the same x, axis and
\* dtype argument with keepdims=False: sum for cumsum, prod for cumprod.
ReductionResult ==
    IF fn = "cumsum"
    THEN sum(x, axis, dtype, FALSE, NoOut).ret
    ELSE prod(x, axis, dtype, FALSE)

\* The index of the scan result that lies at position p of the scanned axis
\* and at oidx on the other axes.
AtScanAxis(oidx, p) ==
    LET k == axis.v[1] + 1
    IN  [j \in 1..(Len(oidx) + 1) |->
            IF j < k THEN oidx[j] ELSE IF j = k THEN p ELSE oidx[j - 1]]

\* C22: for every x with extent >= 1 along axis k and the same dtype
\* argument, the last slice along k of cumsum(x, axis=k) and the first slice
\* along k of cumsum(x, axis=k, reverse=True) equal sum(x, axis=k), with the
\* same output dtype; likewise for cumprod and prod.
C22_EndSliceIsReduction ==
    (Done /\ IsScan /\ ~exclusive /\ ScanExtent >= 1) =>
        /\ IsTensor(ret)
        /\ IsTensor(ReductionResult)
        /\ ret.dtype = ReductionResult.dtype
        /\ ReductionResult.shape = ShapeWithout(x.shape, {axis.v[1]}, FALSE)
        /\ \A oidx \in Indices(ReductionResult.shape) :
              ret.data[AtScanAxis(oidx, IF reverse THEN 0 ELSE ScanExtent - 1)]
                  = ReductionResult.data[oidx]

\* C22 witness: a reverse cumsum of (WideVal, 0, WideVal) with dtype int8 has
\* returned at position 0 what sum returns, 2 WideVal wrapped into int8.
C22_Witness ==
    /\ Done /\ fn = "cumsum" /\ ~exclusive /\ reverse /\ dtype = "int8"
    /\ x.shape = <<3>>
    /\ x.data[<<0>>] = WideVal /\ x.data[<<1>>] = 0 /\ x.data[<<2>>] = WideVal
    /\ ret.dtype = "int8"
    /\ ret.data[<<0>>] = WrapVal(2 * WideVal, "int8")
    /\ ret.data[<<2>>] = WrapVal(WideVal, "int8")
    /\ ReductionResult.data[<<>>] = ret.data[<<0>>]

====
